---- MODULE Spec2Model ----
(***************************************************************************)
(* A model of the rattle repository: the recursive-descent parser of       *)
(* rtl_parser (src/rtl_parser/src/lib.rs) as a step machine over a token   *)
(* stream, and the value store of the JIT stub (src/rtlc/src/main.rs).     *)
(*                                                                         *)
(* Tokens are strings.  A delimited group of the token tree is written     *)
(* flat, as its opening token, its inner tokens and its closing token; the *)
(* tokenizer only hands balanced streams to the parser.  A parse stream is *)
(* a cursor and an end over src; `streams` is the stack of parse streams   *)
(* alive (the innermost `content` buffer on top) and `stack` is the call   *)
(* stack of the Parse implementations.  `entry` is the Parse implementation *)
(* the token stream is handed to: Rattle for parse(), or one production.   *)
(* `forked` is the cursor of the last fork after its probes, `result` the  *)
(* Result of the parse, `calls` the calls made on the JitCompiler so far.  *)
(***************************************************************************)
EXTENDS Integers, Sequences, FiniteSets, TLC

VARIABLES src, entry, streams, stack, forked, result, var_types, calls, panicked

parserVars == <<src, entry, streams, stack, forked, result>>
jitVars == <<var_types, calls, panicked>>
vars == <<src, entry, streams, stack, forked, result, var_types, calls, panicked>>

(***************************************************************************)
(* Tokens                                                                  *)
(***************************************************************************)
\* custom_keyword!: ordinary identifiers for the tokenizer and for Ident
CustomKeywords == {"f", "import", "gen", "def", "var"}
\* reserved words: identifier tokens that syn's Ident parser rejects
RustKeywords == {"const", "static", "struct", "as", "for", "mut"}
Puncts == {";", "::", ",", "="}
Openers == {"(", "{"}
Closers == {")", "}"}

CloserOf(o) == IF o = "(" THEN ")" ELSE "}"

IsIdent(t) == t \notin (RustKeywords \cup Puncts \cup Openers \cup Closers)

\* TokenStream::from_str: every group is closed by its own delimiter
RECURSIVE BalancedFrom(_, _, _)
BalancedFrom(s, j, open) ==
  IF j > Len(s) THEN open = <<>>
  ELSE IF s[j] \in Openers THEN BalancedFrom(s, j + 1, <<CloserOf(s[j])>> \o open)
  ELSE IF s[j] \in Closers
       THEN /\ open /= <<>>
            /\ open[1] = s[j]
            /\ BalancedFrom(s, j + 1, Tail(open))
  ELSE BalancedFrom(s, j + 1, open)

Balanced(s) == BalancedFrom(s, 1, <<>>)

\* the closing token of the group opened at i (s balanced)
RECURSIVE MatchFrom(_, _, _)
MatchFrom(s, j, depth) ==
  IF s[j] \in Openers THEN MatchFrom(s, j + 1, depth + 1)
  ELSE IF s[j] \in Closers
       THEN IF depth = 1 THEN j ELSE MatchFrom(s, j + 1, depth - 1)
  ELSE MatchFrom(s, j + 1, depth)

MatchClose(s, i) == MatchFrom(s, i + 1, 1)

(***************************************************************************)
(* Parse streams and primitive parsers.  A primitive takes the cursor c    *)
(* and the end e of a stream and returns the cursor after it and a value,  *)
(* or the cursor unmoved and an error.                                     *)
(***************************************************************************)
Ok(c, val) == [ok |-> TRUE, cur |-> c, val |-> val]
Err(c, e, expected) ==
  [ok |-> FALSE, cur |-> c, err |-> [expected |-> expected, at |-> c, eof |-> c = e]]

\* input.parse::<Token![t]>() and input.parse::<keyword>()
ParseToken(t, c, e) ==
  IF c < e /\ src[c] = t THEN Ok(c + 1, t) ELSE Err(c, e, <<t>>)

\* input.parse::<Ident>()
ParseIdent(c, e) ==
  IF c < e /\ IsIdent(src[c]) THEN Ok(c + 1, src[c]) ELSE Err(c, e, <<"identifier">>)

\* input.peek(t)
Peek(t, c, e) == c < e /\ src[c] = t

\* parenthesized!(content in input) and braced!(content in input)
ParseGroup(open, c, e) ==
  IF c < e /\ src[c] = open
  THEN Ok(MatchClose(src, c) + 1, [cur |-> c + 1, end |-> MatchClose(src, c)])
  ELSE Err(c, e, <<open>>)

Top == stack[Len(stack)]
Cur == streams[Len(streams)].cur
End == streams[Len(streams)].end
Running(p, pc) == stack /= <<>> /\ Top.p = p /\ Top.pc = pc

SetCur(c) == [streams EXCEPT ![Len(streams)].cur = c]
Pop(s) == SubSeq(s, 1, Len(s) - 1)
SetTop(fr) == [stack EXCEPT ![Len(stack)] = fr]
Frame(p, pc, v) == [p |-> p, pc |-> pc, v |-> v]

None == <<>>
Some(x) == <<x>>

(***************************************************************************)
(* Returning a node to the caller: `?` on Ok                               *)
(***************************************************************************)
RECURSIVE Deliver(_, _)
Deliver(stk, val) ==
  IF stk = <<>> THEN [stack |-> stk, result |-> [status |-> "ok", val |-> val]]
  ELSE LET fr == stk[Len(stk)] IN
    CASE fr.p = "RtlDecl" ->
           Deliver(Pop(stk), [value |-> [variant |-> fr.v.variant, node |-> val]])
      [] fr.p = "Rattle" /\ fr.pc = "imports" ->
           [stack |-> [stk EXCEPT ![Len(stk)].v.imports = Append(@, val)],
            result |-> result]
      [] fr.p = "Rattle" /\ fr.pc = "decls" ->
           [stack |-> [stk EXCEPT ![Len(stk)].v.decls = Append(@, val)],
            result |-> result]
      [] fr.p = "RtlDef" ->
           [stack |-> [stk EXCEPT ![Len(stk)].v.defs = Append(@, val)],
            result |-> result]
      [] fr.p = "RtlGen" ->
           [stack |-> [stk EXCEPT ![Len(stk)].v.methods = Append(@, val)],
            result |-> result]

\* Ok(node) out of the running parser
Return(val) ==
  LET d == Deliver(Pop(stack), val) IN
    /\ stack' = d.stack
    /\ result' = d.result

\* Err(e) out of the running parser: every caller propagates it with `?`
Fail(r) ==
  /\ streams' = SetCur(r.cur)
  /\ stack' = <<>>
  /\ result' = [status |-> "err", err |-> r.err]

\* input.parse()? as the body of a loop: the callee starts on the same stream,
\* and the loop's frame keeps in `at` the cursor its iteration started from
Call(fr) == stack' = Append(SetTop([Top EXCEPT !.v.at = Cur]), fr)

(***************************************************************************)
(* impl Parse for RtlImport                                                *)
(***************************************************************************)
StepOk(c, fk, v, brk) == [ok |-> TRUE, cur |-> c, forked |-> fk, v |-> v, brk |-> brk]
StepErr(r, fk) == [ok |-> FALSE, cur |-> r.cur, err |-> r.err, forked |-> fk]

\* RtlImportElement with `::` found on the fork and never taken from the input
RtlImportElement_uncommitted(c, e, v) ==
  LET asProbe == ParseToken("as", c, e)
      semiProbe == ParseToken(";", c, e)
      sepProbe == ParseToken("::", c, e)
  IN
  IF asProbe.ok THEN
    LET al == ParseIdent(asProbe.cur, e)
    IN IF al.ok THEN StepOk(al.cur, asProbe.cur, [v EXCEPT !.alias = Some(al.val)], FALSE)
       ELSE StepErr(al, asProbe.cur)
  ELSE IF semiProbe.ok THEN StepOk(semiProbe.cur, semiProbe.cur, v, TRUE)
  ELSE IF sepProbe.ok THEN StepOk(c, sepProbe.cur, v, FALSE)
  ELSE
    LET part == ParseIdent(c, e)
    IN IF part.ok THEN StepOk(part.cur, c, [v EXCEPT !.path = Append(@, part.val)], FALSE)
       ELSE StepErr(part, c)

\* RtlImportElement with the segment put in front of the path
RtlImportElement_prepend(c, e, v) ==
  LET asProbe == ParseToken("as", c, e)
      semiProbe == ParseToken(";", c, e)
      sepProbe == ParseToken("::", c, e)
  IN
  IF asProbe.ok THEN
    LET al == ParseIdent(asProbe.cur, e)
    IN IF al.ok THEN StepOk(al.cur, asProbe.cur, [v EXCEPT !.alias = Some(al.val)], FALSE)
       ELSE StepErr(al, asProbe.cur)
  ELSE IF semiProbe.ok THEN StepOk(semiProbe.cur, semiProbe.cur, v, TRUE)
  ELSE IF sepProbe.ok THEN StepOk(sepProbe.cur, sepProbe.cur, v, FALSE)
  ELSE
    LET part == ParseIdent(c, e)
    IN IF part.ok THEN StepOk(part.cur, c, [v EXCEPT !.path = <<part.val>> \o @], FALSE)
       ELSE StepErr(part, c)

\* one iteration of the loop of RtlImport::parse
RtlImportElement(c, e, v) ==
  LET asProbe == ParseToken("as", c, e)
      semiProbe == ParseToken(";", c, e)
      sepProbe == ParseToken("::", c, e)
  IN
  IF asProbe.ok THEN
    LET kw == ParseToken("as", c, e)
        al == IF kw.ok THEN ParseIdent(kw.cur, e) ELSE kw
    IN IF al.ok THEN StepOk(al.cur, asProbe.cur, [v EXCEPT !.alias = Some(al.val)], FALSE)
       ELSE StepErr(al, asProbe.cur)
  ELSE IF semiProbe.ok THEN
    LET semi == ParseToken(";", c, e)
    IN IF semi.ok THEN StepOk(semi.cur, semiProbe.cur, v, TRUE)
       ELSE StepErr(semi, semiProbe.cur)
  ELSE IF sepProbe.ok THEN
    LET sep == ParseToken("::", c, e)
    IN IF sep.ok THEN StepOk(sep.cur, sepProbe.cur, v, FALSE)
       ELSE StepErr(sep, sepProbe.cur)
  ELSE
    LET part == ParseIdent(c, e)
    IN IF part.ok THEN StepOk(part.cur, c, [v EXCEPT !.path = Append(@, part.val)], FALSE)
       ELSE StepErr(part, c)

RtlImportNode(v) == [path |-> v.path, alias |-> v.alias]

ImportHead ==
  /\ Running("RtlImport", "head")
  /\ LET kw == ParseToken("import", Cur, End) IN
       IF kw.ok
       THEN /\ streams' = SetCur(kw.cur)
            /\ stack' = SetTop(Frame("RtlImport", "loop", [path |-> <<>>, alias |-> None]))
            /\ result' = result
       ELSE Fail(kw)
  /\ UNCHANGED <<src, entry, forked, jitVars>>

ImportIter ==
  /\ Running("RtlImport", "loop")
  /\ Cur /= End
  /\ LET r == RtlImportElement(Cur, End, Top.v) IN
       /\ forked' = r.forked
       /\ IF ~r.ok THEN Fail(r)
          ELSE /\ streams' = SetCur(r.cur)
               /\ IF r.brk THEN Return(RtlImportNode(r.v))
                  ELSE /\ stack' = SetTop([Top EXCEPT !.v = r.v])
                       /\ result' = result
  /\ UNCHANGED <<src, entry, jitVars>>

ImportEnd ==
  /\ Running("RtlImport", "loop")
  /\ Cur = End
  /\ Return(RtlImportNode(Top.v))
  /\ UNCHANGED <<src, entry, streams, forked, jitVars>>

(***************************************************************************)
(* Placeholder grammars: succeed without consuming anything                *)
(***************************************************************************)
\* RtlExpr taking the token at the cursor unless it is the terminator
RtlExpr_oneToken(c, e) ==
  IF c < e /\ src[c] /= ";" THEN Ok(c + 1, "RtlExpr") ELSE Ok(c, "RtlExpr")

RtlExpr(c, e) == Ok(c, "RtlExpr")
RtlBody(c, e) == Ok(c, "RtlBody")

(***************************************************************************)
(* impl Parse for RtlFn, RtlFnArg                                          *)
(***************************************************************************)
RtlFnArg(c, e) ==
  LET ty == ParseIdent(c, e)
      name == IF ty.ok THEN ParseIdent(ty.cur, e) ELSE ty
  IN IF name.ok THEN Ok(name.cur, [ty |-> ty.val, name |-> name.val]) ELSE name

\* `f` name `(`: the cursor after the group and the content stream
RtlFnHead(c, e) ==
  LET kw == ParseToken("f", c, e)
      name == IF kw.ok THEN ParseIdent(kw.cur, e) ELSE kw
      content == IF name.ok THEN ParseGroup("(", name.cur, e) ELSE name
  IN IF content.ok THEN Ok(content.cur, [name |-> name.val, content |-> content.val])
     ELSE content

\* RtlFnArgsElement with the separator taken only when it is there
RtlFnArgsElement_optionalComma(c, e, args) ==
  LET arg == RtlFnArg(c, e)
      comma == IF arg.ok /\ Peek(",", arg.cur, e) THEN ParseToken(",", arg.cur, e) ELSE arg
  IN IF comma.ok THEN Ok(comma.cur, Append(args, arg.val)) ELSE comma

\* one iteration of the argument loop, on the content stream
RtlFnArgsElement(c, e, args) ==
  LET arg == RtlFnArg(c, e)
      comma == IF arg.ok /\ arg.cur /= e THEN ParseToken(",", arg.cur, e) ELSE arg
  IN IF comma.ok THEN Ok(comma.cur, Append(args, arg.val)) ELSE comma

\* RtlFnTail probing for the terminator on the input instead of a fork of it
RtlFnTail_probeOnInput(c, e, v) ==
  LET ret == ParseIdent(c, e)
      semiProbe == IF ret.ok THEN ParseToken(";", ret.cur, e) ELSE ret
      rest == IF ~ret.ok THEN ret
              ELSE IF semiProbe.ok THEN ParseToken(";", semiProbe.cur, e)
              ELSE RtlBody(ret.cur, e)
  IN IF rest.ok
     THEN StepOk(rest.cur, semiProbe.cur,
                 [name |-> v.name, args |-> v.args, ret |-> ret.val, body |-> "RtlBody"],
                 semiProbe.ok)
     ELSE StepErr(rest, forked)

\* the return type, then the terminator or the body
RtlFnTail(c, e, v) ==
  LET ret == ParseIdent(c, e)
      semiProbe == IF ret.ok THEN ParseToken(";", ret.cur, e) ELSE ret
      rest == IF ~ret.ok THEN ret
              ELSE IF semiProbe.ok THEN ParseToken(";", ret.cur, e)
              ELSE RtlBody(ret.cur, e)
  IN IF rest.ok
     THEN StepOk(rest.cur, semiProbe.cur,
                 [name |-> v.name, args |-> v.args, ret |-> ret.val, body |-> "RtlBody"],
                 semiProbe.ok)
     ELSE StepErr(rest, forked)

FnHead ==
  /\ Running("RtlFn", "head")
  /\ LET h == RtlFnHead(Cur, End) IN
       IF h.ok
       THEN /\ streams' = Append(SetCur(h.cur), h.val.content)
            /\ stack' = SetTop(Frame("RtlFn", "args", [name |-> h.val.name, args |-> <<>>]))
            /\ result' = result
       ELSE Fail(h)
  /\ UNCHANGED <<src, entry, forked, jitVars>>

FnArg ==
  /\ Running("RtlFn", "args")
  /\ Cur /= End
  /\ LET a == RtlFnArgsElement(Cur, End, Top.v.args) IN
       IF a.ok
       THEN /\ streams' = SetCur(a.cur)
            /\ stack' = SetTop([Top EXCEPT !.v.args = a.val])
            /\ result' = result
       ELSE Fail(a)
  /\ UNCHANGED <<src, entry, forked, jitVars>>

FnTail ==
  /\ Running("RtlFn", "args")
  /\ Cur = End
  /\ LET input == Pop(streams)
         t == RtlFnTail(input[Len(input)].cur, input[Len(input)].end, Top.v)
     IN /\ forked' = t.forked
        /\ streams' = [input EXCEPT ![Len(input)].cur = t.cur]
        /\ IF t.ok THEN Return(t.v)
           ELSE /\ stack' = <<>>
                /\ result' = [status |-> "err", err |-> t.err]
  /\ UNCHANGED <<src, entry, jitVars>>

(***************************************************************************)
(* impl Parse for RtlConstExpr, RtlVarExpr, RtlStatic                      *)
(***************************************************************************)
RtlConstExprParse(c, e) ==
  LET kw == ParseToken("const", c, e)
      ty == IF kw.ok THEN ParseIdent(kw.cur, e) ELSE kw
      name == IF ty.ok THEN ParseIdent(ty.cur, e) ELSE ty
      eq == IF name.ok THEN ParseToken("=", name.cur, e) ELSE name
      data == IF eq.ok THEN RtlExpr(eq.cur, e) ELSE eq
      semi == IF data.ok THEN ParseToken(";", data.cur, e) ELSE data
  IN IF semi.ok THEN Ok(semi.cur, [name |-> name.val, ty |-> ty.val, data |-> data.val])
     ELSE semi

\* the shared shape of RtlVarExpr::parse (kw = "var") and RtlStatic::parse (kw = "static")
RtlMutExprParse(keyword, c, e) ==
  LET kw == ParseToken(keyword, c, e)
      ty == IF kw.ok THEN ParseIdent(kw.cur, e) ELSE kw
      is_mut == ty.ok /\ Peek("mut", ty.cur, e)
      mt == IF ty.ok /\ is_mut THEN ParseToken("mut", ty.cur, e) ELSE ty
      name == IF mt.ok THEN ParseIdent(mt.cur, e) ELSE mt
      eq == IF name.ok THEN ParseToken("=", name.cur, e) ELSE name
      data == IF eq.ok THEN RtlExpr(eq.cur, e) ELSE eq
      semi == IF data.ok THEN ParseToken(";", data.cur, e) ELSE data
  IN IF semi.ok
     THEN Ok(semi.cur, [name |-> name.val, ty |-> ty.val, is_mut |-> is_mut, data |-> data.val])
     ELSE semi

RtlVarExprParse(c, e) == RtlMutExprParse("var", c, e)
RtlStaticParse(c, e) == RtlMutExprParse("static", c, e)

Leaf(r) ==
  /\ IF r.ok THEN streams' = SetCur(r.cur) /\ Return(r.val) ELSE Fail(r)
  /\ UNCHANGED <<src, entry, forked, jitVars>>

ConstExpr == Running("RtlConstExpr", "head") /\ Leaf(RtlConstExprParse(Cur, End))
VarExpr == Running("RtlVarExpr", "head") /\ Leaf(RtlVarExprParse(Cur, End))
Static == Running("RtlStatic", "head") /\ Leaf(RtlStaticParse(Cur, End))

(***************************************************************************)
(* impl Parse for RtlStruct, RtlStructField                                *)
(***************************************************************************)
RtlStructField(c, e) ==
  LET ty == ParseIdent(c, e)
      name == IF ty.ok THEN ParseIdent(ty.cur, e) ELSE ty
  IN IF name.ok THEN Ok(name.cur, [ty |-> ty.val, name |-> name.val]) ELSE name

RtlStructHead(c, e) ==
  LET kw == ParseToken("struct", c, e)
      name == IF kw.ok THEN ParseIdent(kw.cur, e) ELSE kw
      content == IF name.ok THEN ParseGroup("{", name.cur, e) ELSE name
  IN IF content.ok THEN Ok(content.cur, [name |-> name.val, content |-> content.val])
     ELSE content

\* RtlStructFieldsElement with a separator demanded after every field
RtlStructFieldsElement_alwaysComma(c, e, fields) ==
  LET field == RtlStructField(c, e)
      comma == IF field.ok THEN ParseToken(",", field.cur, e) ELSE field
  IN IF comma.ok THEN Ok(comma.cur, Append(fields, field.val)) ELSE comma

\* one iteration of the field loop, on the content stream
RtlStructFieldsElement(c, e, fields) ==
  LET field == RtlStructField(c, e)
      comma == IF field.ok /\ field.cur /= e THEN ParseToken(",", field.cur, e) ELSE field
  IN IF comma.ok THEN Ok(comma.cur, Append(fields, field.val)) ELSE comma

StructHead ==
  /\ Running("RtlStruct", "head")
  /\ LET h == RtlStructHead(Cur, End) IN
       IF h.ok
       THEN /\ streams' = Append(SetCur(h.cur), h.val.content)
            /\ stack' = SetTop(Frame("RtlStruct", "fields",
                                     [name |-> h.val.name, fields |-> <<>>]))
            /\ result' = result
       ELSE Fail(h)
  /\ UNCHANGED <<src, entry, forked, jitVars>>

StructField ==
  /\ Running("RtlStruct", "fields")
  /\ Cur /= End
  /\ LET a == RtlStructFieldsElement(Cur, End, Top.v.fields) IN
       IF a.ok
       THEN /\ streams' = SetCur(a.cur)
            /\ stack' = SetTop([Top EXCEPT !.v.fields = a.val])
            /\ result' = result
       ELSE Fail(a)
  /\ UNCHANGED <<src, entry, forked, jitVars>>

StructEnd ==
  /\ Running("RtlStruct", "fields")
  /\ Cur = End
  /\ streams' = Pop(streams)
  /\ Return([name |-> Top.v.name, fields |-> Top.v.fields])
  /\ UNCHANGED <<src, entry, forked, jitVars>>

(***************************************************************************)
(* impl Parse for RtlDef                                                   *)
(***************************************************************************)
RtlDefHead(c, e) ==
  LET kw == ParseToken("def", c, e)
      name == IF kw.ok THEN ParseIdent(kw.cur, e) ELSE kw
      content == IF name.ok THEN ParseGroup("{", name.cur, e) ELSE name
  IN IF content.ok THEN Ok(content.cur, [name |-> name.val, content |-> content.val])
     ELSE content

\* RtlDefTail with the trailing terminator demanded
RtlDefTail_needsTerminator(c, e, v) ==
  LET has_for == Peek("for", c, e)
      kw == IF has_for THEN ParseToken("for", c, e) ELSE Ok(c, "")
      target == IF has_for /\ kw.ok THEN ParseIdent(kw.cur, e) ELSE kw
      def_for == IF has_for THEN Some(target.val) ELSE None
      semi == IF target.ok THEN ParseToken(";", target.cur, e) ELSE target
  IN IF semi.ok
     THEN Ok(semi.cur, [struct_name |-> v.struct_name, defs |-> v.defs, def_for |-> def_for])
     ELSE semi

\* after the braces: the optional `for` clause and the optional terminator
RtlDefTail(c, e, v) ==
  LET has_for == Peek("for", c, e)
      kw == IF has_for THEN ParseToken("for", c, e) ELSE Ok(c, "")
      target == IF has_for /\ kw.ok THEN ParseIdent(kw.cur, e) ELSE kw
      def_for == IF has_for THEN Some(target.val) ELSE None
      semi == IF target.ok /\ Peek(";", target.cur, e)
              THEN ParseToken(";", target.cur, e) ELSE target
  IN IF semi.ok
     THEN Ok(semi.cur, [struct_name |-> v.struct_name, defs |-> v.defs, def_for |-> def_for])
     ELSE semi

DefHead ==
  /\ Running("RtlDef", "head")
  /\ LET h == RtlDefHead(Cur, End) IN
       IF h.ok
       THEN /\ streams' = Append(SetCur(h.cur), h.val.content)
            /\ stack' = SetTop(Frame("RtlDef", "defs",
                                     [struct_name |-> h.val.name, defs |-> <<>>, at |-> 0]))
            /\ result' = result
       ELSE Fail(h)
  /\ UNCHANGED <<src, entry, forked, jitVars>>

DefFn ==
  /\ Running("RtlDef", "defs")
  /\ Cur /= End
  /\ Call(Frame("RtlFn", "head", <<>>))
  /\ UNCHANGED <<src, entry, streams, forked, result, jitVars>>

DefTail ==
  /\ Running("RtlDef", "defs")
  /\ Cur = End
  /\ LET input == Pop(streams)
         t == RtlDefTail(input[Len(input)].cur, input[Len(input)].end, Top.v)
     IN /\ streams' = [input EXCEPT ![Len(input)].cur = t.cur]
        /\ IF t.ok THEN Return(t.val)
           ELSE /\ stack' = <<>>
                /\ result' = [status |-> "err", err |-> t.err]
  /\ UNCHANGED <<src, entry, forked, jitVars>>

(***************************************************************************)
(* impl Parse for RtlGen                                                   *)
(***************************************************************************)
\* RtlGenMore stopping at the first token that cannot start a Function
RtlGenMore_untilNotFn(c, e) == Peek("f", c, e)

\* the loop condition of RtlGen::parse
RtlGenMore(c, e) == c /= e

GenHead ==
  /\ Running("RtlGen", "head")
  /\ LET kw == ParseToken("gen", Cur, End) IN
       IF kw.ok
       THEN /\ streams' = SetCur(kw.cur)
            /\ stack' = SetTop(Frame("RtlGen", "methods", [methods |-> <<>>, at |-> 0]))
            /\ result' = result
       ELSE Fail(kw)
  /\ UNCHANGED <<src, entry, forked, jitVars>>

GenFn ==
  /\ Running("RtlGen", "methods")
  /\ RtlGenMore(Cur, End)
  /\ Call(Frame("RtlFn", "head", <<>>))
  /\ UNCHANGED <<src, entry, streams, forked, result, jitVars>>

GenEnd ==
  /\ Running("RtlGen", "methods")
  /\ ~RtlGenMore(Cur, End)
  /\ Return([methods |-> Top.v.methods])
  /\ UNCHANGED <<src, entry, streams, forked, jitVars>>

(***************************************************************************)
(* impl Parse for RtlDecl                                                  *)
(***************************************************************************)
\* DeclKinds with one more branch, sending `import` back to the import parser
DeclKinds_withImport ==
  << [tok |-> "f", variant |-> "RtlFn", parser |-> "RtlFn"],
     [tok |-> "const", variant |-> "RtlConst", parser |-> "RtlConstExpr"],
     [tok |-> "var", variant |-> "RtlVar", parser |-> "RtlVarExpr"],
     [tok |-> "static", variant |-> "RtlStatic", parser |-> "RtlStatic"],
     [tok |-> "struct", variant |-> "RtlStruct", parser |-> "RtlStruct"],
     [tok |-> "def", variant |-> "RtlDef", parser |-> "RtlDef"],
     [tok |-> "gen", variant |-> "RtlGen", parser |-> "RtlGen"],
     [tok |-> "import", variant |-> "RtlImport", parser |-> "RtlImport"] >>

\* the branches of RtlDecl::parse, in the order they are tried
DeclKinds ==
  << [tok |-> "f", variant |-> "RtlFn", parser |-> "RtlFn"],
     [tok |-> "const", variant |-> "RtlConst", parser |-> "RtlConstExpr"],
     [tok |-> "var", variant |-> "RtlVar", parser |-> "RtlVarExpr"],
     [tok |-> "static", variant |-> "RtlStatic", parser |-> "RtlStatic"],
     [tok |-> "struct", variant |-> "RtlStruct", parser |-> "RtlStruct"],
     [tok |-> "def", variant |-> "RtlDef", parser |-> "RtlDef"],
     [tok |-> "gen", variant |-> "RtlGen", parser |-> "RtlGen"] >>

\* LookaheadError naming only the first kind that was tried
LookaheadError_firstOnly(c, e, comparisons) == Err(c, e, SubSeq(comparisons, 1, 1))

\* lookahead.error(): the token kinds peeked and not found at the cursor
LookaheadError(c, e, comparisons) == Err(c, e, comparisons)

\* input.lookahead1() followed by the chain of lookahead.peek(..)
RECURSIVE Lookahead1(_, _, _, _)
Lookahead1(c, e, i, comparisons) ==
  IF i > Len(DeclKinds) THEN LookaheadError(c, e, comparisons)
  ELSE IF Peek(DeclKinds[i].tok, c, e) THEN Ok(c, DeclKinds[i])
  ELSE Lookahead1(c, e, i + 1, Append(comparisons, DeclKinds[i].tok))

RtlDeclDispatch(c, e) == Lookahead1(c, e, 1, <<>>)

Decl ==
  /\ Running("RtlDecl", "head")
  /\ LET d == RtlDeclDispatch(Cur, End) IN
       IF d.ok
       THEN /\ stack' = Append(SetTop(Frame("RtlDecl", "value", [variant |-> d.val.variant])),
                               Frame(d.val.parser, "head", <<>>))
            /\ UNCHANGED <<streams, result>>
       ELSE Fail(d)
  /\ UNCHANGED <<src, entry, forked, jitVars>>

(***************************************************************************)
(* impl Parse for Rattle, and parse()                                      *)
(***************************************************************************)
RattleImport ==
  /\ Running("Rattle", "imports")
  /\ Peek("import", Cur, End)
  /\ Call(Frame("RtlImport", "head", <<>>))
  /\ UNCHANGED <<src, entry, streams, forked, result, jitVars>>

RattleImportsEnd ==
  /\ Running("Rattle", "imports")
  /\ ~Peek("import", Cur, End)
  /\ stack' = SetTop([Top EXCEPT !.pc = "decls"])
  /\ UNCHANGED <<src, entry, streams, forked, result, jitVars>>

\* SkipTerminator taking every terminator in front of a declaration
SkipTerminator_all(c, e) ==
  LET semiProbe == ParseToken(";", c, e)
      last == CHOOSE k \in c..e : /\ \A i \in c..(k - 1) : src[i] = ";"
                                  /\ (k = e \/ src[k] /= ";")
  IN [cur |-> last, forked |-> semiProbe.cur]

\* the optional terminator in front of a declaration
SkipTerminator(c, e) ==
  LET semiProbe == ParseToken(";", c, e)
      semi == IF semiProbe.ok THEN ParseToken(";", c, e) ELSE Ok(c, "")
  IN [cur |-> semi.cur, forked |-> semiProbe.cur]

RattleDecl ==
  /\ Running("Rattle", "decls")
  /\ Cur /= End
  /\ LET s == SkipTerminator(Cur, End) IN
       /\ forked' = s.forked
       /\ streams' = SetCur(s.cur)
  /\ Call(Frame("RtlDecl", "head", <<>>))
  /\ UNCHANGED <<src, entry, result, jitVars>>

RattleEnd ==
  /\ Running("Rattle", "decls")
  /\ Cur = End
  /\ Return([decls |-> Top.v.decls, imports |-> Top.v.imports, public |-> <<>>])
  /\ UNCHANGED <<src, entry, streams, forked, jitVars>>

EntryFrame(p) ==
  IF p = "Rattle" THEN Frame("Rattle", "imports", [imports |-> <<>>, decls |-> <<>>, at |-> 0])
  ELSE Frame(p, "head", <<>>)

\* parse(): tokenize, then run the parser over the whole stream
Parse ==
  /\ result.status = "none"
  /\ stack = <<>>
  /\ entry /= "JitCompiler"
  /\ IF Balanced(src)
     THEN /\ stack' = <<EntryFrame(entry)>>
          /\ result' = [status |-> "parsing"]
     ELSE /\ stack' = <<>>
          /\ result' = [status |-> "err", err |-> [expected |-> <<>>, at |-> 0, eof |-> FALSE]]
  /\ UNCHANGED <<src, entry, streams, forked, jitVars>>

(***************************************************************************)
(* The value store of JitCompiler (rtlc)                                   *)
(***************************************************************************)
Names == {"a", "b"}
JitValues == {[ty |-> "Int", v |-> 10], [ty |-> "Int", v |-> 20], [ty |-> "Float", v |-> 15]}
MaxCalls == 3

\* HashMap::insert
Insert(map, name, item) ==
  [n \in DOMAIN map \cup {name} |-> IF n = name THEN item ELSE map[n]]

JitMeta(is_mut) == [is_mut |-> is_mut]

\* JitCompiler::get
get(name) == IF name \in DOMAIN var_types THEN Some(var_types[name][2]) ELSE None

\* JitCompiler::get_auto
get_auto(name) ==
  IF get(name) = None THEN [ok |-> FALSE, err |-> "not found"]
  ELSE [ok |-> TRUE, val |-> get(name)[1]]

\* AssignVarEffect without the mutability check
AssignVarEffect_anyBinding(map, name, value) ==
  IF name \in DOMAIN map
  THEN [panic |-> "", map |-> [map EXCEPT ![name] = <<@[1], value>>]]
  ELSE [panic |-> "not found", map |-> map]

\* the store after assign_var, or the panic it raises
AssignVarEffect(map, name, value) ==
  IF name \in DOMAIN map
  THEN IF map[name][1].is_mut
       THEN [panic |-> "", map |-> [map EXCEPT ![name] = <<@[1], value>>]]
       ELSE [panic |-> "immutable", map |-> map]
  ELSE [panic |-> "not found", map |-> map]

JitCall(op, name, value) ==
  /\ entry = "JitCompiler"
  /\ panicked = ""
  /\ Len(calls) < MaxCalls
  /\ calls' = Append(calls, [op |-> op, name |-> name, value |-> value])
  /\ UNCHANGED parserVars

decl_const ==
  \E name \in Names, value \in JitValues :
    /\ JitCall("decl_const", name, value)
    /\ var_types' = Insert(var_types, name, <<JitMeta(FALSE), value>>)
    /\ UNCHANGED panicked

decl_var ==
  \E name \in Names, value \in JitValues :
    /\ JitCall("decl_var", name, value)
    /\ var_types' = Insert(var_types, name, <<JitMeta(FALSE), value>>)
    /\ UNCHANGED panicked

decl_var_mut ==
  \E name \in Names, value \in JitValues :
    /\ JitCall("decl_var_mut", name, value)
    /\ var_types' = Insert(var_types, name, <<JitMeta(TRUE), value>>)
    /\ UNCHANGED panicked

assign_var ==
  \E name \in Names, value \in JitValues :
    /\ JitCall("assign_var", name, value)
    /\ LET r == AssignVarEffect(var_types, name, value) IN
         /\ var_types' = r.map
         /\ panicked' = r.panic

(***************************************************************************)
(* Inputs                                                                  *)
(***************************************************************************)
MaxImportBody == 6
MaxArgTokens == 6
MaxFieldTokens == 6
MaxDefFns == 2
MaxChunks == 3

SeqsUpTo(S, n) == UNION {[1..k -> S] : k \in 0..n}

RECURSIVE Concat(_)
Concat(ss) == IF ss = <<>> THEN <<>> ELSE Head(ss) \o Concat(Tail(ss))

ImportAlphabet == {"a", "b", "::", "as", ";"}
ImportInputs ==
  {<<"import">> \o body : body \in SeqsUpTo(ImportAlphabet, MaxImportBody)}
    \cup {<<>>, <<"a", ";">>}

ListAlphabet == {"a", "b", ","}
FnTails == {<<"R", ";">>, <<"R">>, <<"R", "{", "}">>, <<"R", ";", ";">>, <<";">>, <<>>}
FnInputs ==
  {<<"f", "N", "(">> \o args \o <<")">> \o tail :
     args \in SeqsUpTo(ListAlphabet, MaxArgTokens), tail \in FnTails}
    \cup {<<"f", "(", ")", "R", ";">>, <<"f", "N", "R", ";">>,
          <<"f", "N", "{", "}", "R", ";">>, <<"N", "(", ")", "R", ";">>}

StructHeads == {<<"struct", "P">>, <<"struct">>, <<"struct", "P", "Q">>}
StructTails == {<<>>, <<";">>}
StructInputs ==
  {head \o <<"{">> \o fields \o <<"}">> \o tail :
     head \in StructHeads, fields \in SeqsUpTo(ListAlphabet, MaxFieldTokens),
     tail \in StructTails}
    \cup {<<"struct", "P">>, <<"struct", "P", "(", ")">>}

FnSnippets ==
  { <<"f", "G", "(", ")", "R", ";">>,
    <<"f", "H", "(", "This", "t", ")", "Str", ";">>,
    <<"f", "K", "(", "a", "b", ",", "b", "a", ",", ")", "R", ";">>,
    <<"f", "G", "(", ")", "R">>,
    <<"f", "G", "(", ")", "R", "{", "}">>,
    <<";">> }
DefTails ==
  { <<>>, <<";">>, <<"for", "T">>, <<"for", "T", ";">>, <<"for">>, <<"for", ";">>,
    <<"T">>, <<";", ";">>, <<"for", "T", "for", "T">> }
DefInputs ==
  {<<"def", "S", "{">> \o Concat(fns) \o <<"}">> \o tail :
     fns \in SeqsUpTo(FnSnippets, MaxDefFns), tail \in DefTails}
    \cup {<<"def", "{", "}">>, <<"def", "S">>, <<"def", "S", "(", ")">>}

Chunks ==
  { <<"import", "a", ";">>, <<"import", "a", "::", "b">>, <<"import">>,
    <<";">>,
    <<"f", "G", "(", ")", "R", ";">>, <<"f", "H", "(", "a", "b", ")", "R">>,
    <<"f", "G", "(", ")", "R", "{", "}">>,
    <<"const", "Int", "X", "=", ";">>, <<"const", "Int", "X", "=">>,
    <<"const", "Int", "X", "=", "a", ";">>,
    <<"var", "Int", "mut", "X", "=", ";">>,
    <<"static", "Int", "X", "=", ";">>,
    <<"struct", "P", "{", "a", "b", ",", "}">>,
    <<"def", "S", "{", "f", "G", "(", ")", "R", ";", "}", "for", "T", ";">>,
    <<"def", "S", "{", "}">>,
    <<"gen">> }
Programs == {Concat(cs) : cs \in SeqsUpTo(Chunks, MaxChunks)}

DeclStarts ==
  Chunks \cup {<<>>, <<"a">>, <<"as">>, <<"mut">>, <<"for">>, <<"=">>, <<"::">>, <<",">>,
               <<"(", ")">>, <<"{", "}">>, <<"var", "Int", "X", "=">>,
               <<"static", "Int", "mut", "X", "=">>, <<"struct", "P", "{", "}">>,
               <<"var", "Int", "X", "=", "a", ";">>,
               <<"static", "Int", "mut", "X", "=", "a", "b", ";">>,
               <<"{">>, <<"(", "}">>}
DeclInputs == {c1 \o c2 : c1 \in DeclStarts, c2 \in {<<>>, <<";">>, <<"f", "G", "(", ")", "R", ";">>}}

(***************************************************************************)
(* Specifications                                                          *)
(***************************************************************************)
InitParser(p, inputs) ==
  /\ entry = p
  /\ src \in inputs
  /\ streams = <<[cur |-> 1, end |-> Len(src) + 1]>>
  /\ stack = <<>>
  /\ forked = 0
  /\ result = [status |-> "none"]
  /\ var_types = <<>>
  /\ calls = <<>>
  /\ panicked = ""

ImportActions == ImportHead \/ ImportIter \/ ImportEnd
FnActions == FnHead \/ FnArg \/ FnTail
StructActions == StructHead \/ StructField \/ StructEnd
DefActions == DefHead \/ DefFn \/ DefTail
GenActions == GenHead \/ GenFn \/ GenEnd
LeafActions == ConstExpr \/ VarExpr \/ Static
DeclActions == Decl \/ FnActions \/ StructActions \/ DefActions \/ GenActions \/ LeafActions
RattleActions == RattleImport \/ RattleImportsEnd \/ RattleDecl \/ RattleEnd

\* the whole program parser, parse(), over programs
Init == InitParser("Rattle", Programs)
Next == Parse \/ RattleActions \/ ImportActions \/ DeclActions
Spec == Init /\ [][Next]_vars

\* the three parsers that probe a fork of their input, each over its own inputs
InitFork ==
  \/ InitParser("Rattle", Programs)
  \/ InitParser("RtlImport", ImportInputs)
  \/ InitParser("RtlFn", FnInputs)
SpecFork == InitFork /\ [][Next]_vars

\* the import parser alone
InitImport == InitParser("RtlImport", ImportInputs)
NextImport == Parse \/ ImportActions
SpecImport == InitImport /\ [][NextImport]_vars

\* the function parser alone
InitFn == InitParser("RtlFn", FnInputs)
NextFn == Parse \/ FnActions
SpecFn == InitFn /\ [][NextFn]_vars

\* the struct parser alone
InitStruct == InitParser("RtlStruct", StructInputs)
NextStruct == Parse \/ StructActions
SpecStruct == InitStruct /\ [][NextStruct]_vars

\* the def-block parser alone
InitDef == InitParser("RtlDef", DefInputs)
NextDef == Parse \/ DefActions \/ FnActions
SpecDef == InitDef /\ [][NextDef]_vars

\* the declaration dispatcher alone
InitDecl == InitParser("RtlDecl", DeclInputs)
NextDecl == Parse \/ DeclActions
SpecDecl == InitDecl /\ [][NextDecl]_vars

\* the value store
InitJit ==
  /\ entry = "JitCompiler"
  /\ src = <<>>
  /\ streams = <<>>
  /\ stack = <<>>
  /\ forked = 0
  /\ result = [status |-> "none"]
  /\ var_types = <<>>
  /\ calls = <<>>
  /\ panicked = ""
NextJit == decl_const \/ decl_var \/ decl_var_mut \/ assign_var
SpecJit == InitJit /\ [][NextJit]_vars

(***************************************************************************)
(* Properties                                                              *)
(***************************************************************************)
Done == result.status \in {"ok", "err"}
Succeeded == result.status = "ok"
Rejected == result.status = "err"

\* s[lo..hi] is ident (`::` ident)*
IsPath(s, lo, hi) ==
  /\ lo <= hi
  /\ (hi - lo) % 2 = 0
  /\ \A i \in lo..hi : IF (i - lo) % 2 = 0 THEN IsIdent(s[i]) ELSE s[i] = "::"

PathSegments(s, lo, hi) == [k \in 1..((hi - lo) \div 2 + 1) |-> s[lo + 2 * (k - 1)]]

HasAlias(s, semi) == semi >= 5 /\ s[semi - 2] = "as" /\ IsIdent(s[semi - 1])

\* s starts with `import s1::...::sn;` or `import s1::...::sn as x;`, terminator at semi
WellFormedImport(s, semi) ==
  /\ semi \in 3..Len(s)
  /\ s[1] = "import"
  /\ s[semi] = ";"
  /\ \/ IsPath(s, 2, semi - 1)
     \/ HasAlias(s, semi) /\ IsPath(s, 2, semi - 3)

ImportOf(s, semi) ==
  IF IsPath(s, 2, semi - 1)
  THEN [path |-> PathSegments(s, 2, semi - 1), alias |-> None]
  ELSE [path |-> PathSegments(s, 2, semi - 3), alias |-> Some(s[semi - 1])]

\* C1: a well-formed import parses to its path segments in source order and to
\* its alias exactly when there is an `as` clause, and the cursor is left right
\* after the terminator.
C1_ImportPathAndAlias ==
  Done =>
    \A semi \in 1..Len(src) :
      WellFormedImport(src, semi) =>
        /\ Succeeded
        /\ result.val = ImportOf(src, semi)
        /\ Cur = semi + 1

C1_Witness ==
  /\ Succeeded
  /\ \E semi \in 1..Len(src) : WellFormedImport(src, semi) /\ HasAlias(src, semi)
  /\ Len(result.val.path) = 2
  /\ result.val.path[1] /= result.val.path[2]
  /\ result.val.alias /= None

\* C2: `import ;` is rejected, and no Import node has an empty path.
C2_NoEmptyImportPath ==
  Done =>
    /\ (Len(src) >= 2 /\ src[1] = "import" /\ src[2] = ";") => Rejected
    /\ Succeeded => result.val.path /= <<>>

\* an import keyword with no terminator anywhere after it
UnterminatedImport(s) ==
  \E i \in 1..Len(s) : s[i] = "import" /\ \A j \in (i + 1)..Len(s) : s[j] /= ";"

\* a constant, variable or static cut right after its `=`
UnterminatedInitializer(s) ==
  /\ Len(s) >= 4
  /\ s[Len(s)] = "="
  /\ \/ s[Len(s) - 3] \in {"const", "var", "static"}
     \/ Len(s) >= 5 /\ s[Len(s) - 4] \in {"var", "static"} /\ s[Len(s) - 2] = "mut"

\* C3: a program whose tokens end in the middle of an import, or of a constant,
\* variable or static, is rejected.
C3_EndMidConstructRejected ==
  (Done /\ (UnterminatedImport(src) \/ UnterminatedInitializer(src))) => Rejected

\* a comma-separated list of (type, name) pairs, with or without a trailing comma
StripTrailingComma(a) ==
  IF a /= <<>> /\ a[Len(a)] = "," THEN SubSeq(a, 1, Len(a) - 1) ELSE a

IsPairs(b) ==
  /\ Len(b) % 3 = 2
  /\ \A i \in 1..Len(b) : IF i % 3 = 0 THEN b[i] = "," ELSE IsIdent(b[i])

WellFormedList(a) == a = <<>> \/ IsPairs(StripTrailingComma(a))

PairsOf(a) ==
  LET b == StripTrailingComma(a) IN
    [k \in 1..((Len(b) + 1) \div 3) |-> [ty |-> b[3 * k - 2], name |-> b[3 * k - 1]]]

\* `f N ( ... ) R` in s[lo..hi] (s balanced): the closing parenthesis
FnSignature(s, lo, hi) ==
  /\ lo + 4 <= hi
  /\ s[lo] = "f"
  /\ IsIdent(s[lo + 1])
  /\ s[lo + 2] = "("
  /\ MatchClose(s, lo + 2) + 1 <= hi
  /\ IsIdent(s[MatchClose(s, lo + 2) + 1])

FnArgTokens(s, lo) == SubSeq(s, lo + 3, MatchClose(s, lo + 2) - 1)

FnOf(s, lo) ==
  [name |-> s[lo + 1], args |-> PairsOf(FnArgTokens(s, lo)),
   ret |-> s[MatchClose(s, lo + 2) + 1], body |-> "RtlBody"]

\* `f N ( T a, ... ) R ;` in s[lo..hi]
TerminatorFormFn(s, lo, hi) ==
  /\ FnSignature(s, lo, hi)
  /\ WellFormedList(FnArgTokens(s, lo))
  /\ MatchClose(s, lo + 2) + 2 <= hi
  /\ s[MatchClose(s, lo + 2) + 2] = ";"

\* `f N ( T a, ... ) R { ... }` filling s[lo..hi]
BlockFormFn(s, lo, hi) ==
  /\ FnSignature(s, lo, hi)
  /\ WellFormedList(FnArgTokens(s, lo))
  /\ MatchClose(s, lo + 2) + 3 <= hi
  /\ s[MatchClose(s, lo + 2) + 2] = "{"
  /\ MatchClose(s, MatchClose(s, lo + 2) + 2) = hi

\* C4: a program that is one block-form function parses to that one Function
\* declaration, the brace group consumed as its body.
C4_BlockFormAccepted ==
  (Done /\ Balanced(src) /\ BlockFormFn(src, 1, Len(src))) =>
    /\ Succeeded
    /\ result.val.decls = <<[value |-> [variant |-> "RtlFn", node |-> FnOf(src, 1)]]>>
    /\ Cur = Len(src) + 1

\* C5: a terminator-form function parses to its name, its return type and its
\* arguments in source order, with the cursor right after the terminator; an
\* argument list that is not (type name) pairs separated by commas is rejected.
C5_TerminatorFormFn ==
  (Done /\ Len(src) >= 3 /\ src[1] = "f" /\ IsIdent(src[2]) /\ src[3] = "(") =>
    /\ TerminatorFormFn(src, 1, Len(src)) =>
         /\ Succeeded
         /\ result.val = FnOf(src, 1)
         /\ Cur = MatchClose(src, 3) + 3
    /\ ~WellFormedList(FnArgTokens(src, 1)) => Rejected

C5_Witness ==
  /\ Succeeded
  /\ TerminatorFormFn(src, 1, Len(src))
  /\ src[MatchClose(src, 3) - 1] = ","
  /\ Len(result.val.args) = 2
  /\ result.val.args[1] /= result.val.args[2]
  /\ Cur = MatchClose(src, 3) + 3

\* `struct P { ... }` at the front of s (s balanced)
StructShape(s) ==
  /\ Len(s) >= 4
  /\ s[1] = "struct"
  /\ IsIdent(s[2])
  /\ s[3] = "{"

StructFieldTokens(s) == SubSeq(s, 4, MatchClose(s, 3) - 1)

\* C6: a struct parses to its name and its fields in source order, the same node
\* with and without a comma after the last field; `struct P { }` has no fields.
C6_StructTrailingComma ==
  (Done /\ StructShape(src) /\ WellFormedList(StructFieldTokens(src))) =>
    /\ Succeeded
    /\ result.val = [name |-> src[2],
                     fields |-> PairsOf(StripTrailingComma(StructFieldTokens(src)))]

C6_Witness ==
  /\ Succeeded
  /\ StructShape(src)
  /\ src[MatchClose(src, 3) - 1] = ","
  /\ Len(result.val.fields) = 2
  /\ result.val.fields[1] /= result.val.fields[2]

\* s[lo..hi] is a sequence of terminator-form functions
RECURSIVE TerminatorFormFns(_, _, _)
TerminatorFormFns(s, lo, hi) ==
  IF lo > hi THEN TRUE
  ELSE /\ TerminatorFormFn(s, lo, hi)
       /\ TerminatorFormFns(s, MatchClose(s, lo + 2) + 3, hi)

RECURSIVE FnsOf(_, _, _)
FnsOf(s, lo, hi) ==
  IF lo > hi THEN <<>> ELSE <<FnOf(s, lo)>> \o FnsOf(s, MatchClose(s, lo + 2) + 3, hi)

\* `def S { ... }` at the front of s (s balanced)
DefShape(s) ==
  /\ Len(s) >= 4
  /\ s[1] = "def"
  /\ IsIdent(s[2])
  /\ s[3] = "{"

DefClose(s) == MatchClose(s, 3)
DefHasFor(s) ==
  /\ Len(s) >= DefClose(s) + 2
  /\ s[DefClose(s) + 1] = "for"
  /\ IsIdent(s[DefClose(s) + 2])
DefNoFor(s) == Len(s) = DefClose(s) \/ s[DefClose(s) + 1] /= "for"
DefAfterFor(s) == DefClose(s) + 1 + (IF DefHasFor(s) THEN 2 ELSE 0)
DefHasTerminator(s) == Len(s) >= DefAfterFor(s) /\ s[DefAfterFor(s)] = ";"

\* `def S { F1 ... Fn }`, then `for T` or not, then anything
WellFormedDef(s) ==
  /\ DefShape(s)
  /\ TerminatorFormFns(s, 4, DefClose(s) - 1)
  /\ DefHasFor(s) \/ DefNoFor(s)

DeclKeywords == <<"f", "const", "var", "static", "struct", "def", "gen">>
StartsDecl(s) == s /= <<>> /\ \E i \in 1..Len(DeclKeywords) : s[1] = DeclKeywords[i]

VariantOf(t) ==
  CASE t = "f" -> "RtlFn" [] t = "const" -> "RtlConst" [] t = "var" -> "RtlVar"
    [] t = "static" -> "RtlStatic" [] t = "struct" -> "RtlStruct"
    [] t = "def" -> "RtlDef" [] t = "gen" -> "RtlGen"

ProductionOf(t) ==
  CASE t = "f" -> "RtlFn" [] t = "const" -> "RtlConstExpr" [] t = "var" -> "RtlVarExpr"
    [] t = "static" -> "RtlStatic" [] t = "struct" -> "RtlStruct"
    [] t = "def" -> "RtlDef" [] t = "gen" -> "RtlGen"

\* C8: the dispatcher runs the production of the first token and the Declaration
\* carries its variant; on any other token, or none, it fails with the cursor
\* unmoved and an error that names all seven keywords.
C8_Dispatch ==
  /\ Len(stack) >= 2 =>
       /\ StartsDecl(src)
       /\ stack[2].p = ProductionOf(src[1])
       /\ stack[1].v.variant = VariantOf(src[1])
  /\ Succeeded =>
       /\ StartsDecl(src)
       /\ result.val.value.variant = VariantOf(src[1])
  /\ (Rejected /\ StartsDecl(src)) => result.err.expected /= DeclKeywords
  /\ (Done /\ Balanced(src) /\ ~StartsDecl(src)) =>
       /\ Rejected
       /\ Cur = 1
       /\ result.err.expected = DeclKeywords
       /\ result.err.at = 1
       /\ result.err.eof = (src = <<>>)

C8_Witness ==
  /\ Rejected
  /\ Balanced(src)
  /\ src /= <<>>
  /\ ~StartsDecl(src)
  /\ Cur = 1
  /\ result.err.expected = DeclKeywords

IsDeclCall(c) == c.op \in {"decl_const", "decl_var", "decl_var_mut"}

\* the last of the first k calls on name (the last declaration if declOnly), or 0
LastCall(k, name, declOnly) ==
  LET S == {i \in 1..k : calls[i].name = name /\ (declOnly => IsDeclCall(calls[i]))}
  IN IF S = {} THEN 0 ELSE CHOOSE i \in S : \A j \in S : j <= i

DeclaredMut(k, name) ==
  /\ LastCall(k, name, TRUE) > 0
  /\ calls[LastCall(k, name, TRUE)].op = "decl_var_mut"

\* what the first k calls leave stored under name
Stored(k, name) ==
  IF LastCall(k, name, TRUE) = 0 THEN None
  ELSE IF DeclaredMut(k, name) THEN Some(calls[LastCall(k, name, FALSE)].value)
  ELSE Some(calls[LastCall(k, name, TRUE)].value)

RefusedAssign(k) ==
  /\ k > 0
  /\ calls[k].op = "assign_var"
  /\ ~DeclaredMut(k - 1, calls[k].name)

\* C9: a name declared with decl_var_mut holds the value of the last call on it,
\* whatever its type; assign_var on a constant, an immutable variable or an
\* undeclared name panics and leaves the store as it was.
C9_AssignVar ==
  /\ \A name \in Names :
       /\ get(name) = Stored(Len(calls), name)
       /\ DeclaredMut(Len(calls), name) =>
            /\ get_auto(name).ok
            /\ get_auto(name).val = calls[LastCall(Len(calls), name, FALSE)].value
  /\ RefusedAssign(Len(calls)) =>
       /\ panicked /= ""
       /\ \A name \in Names : get(name) = Stored(Len(calls) - 1, name)
  /\ panicked /= "" => RefusedAssign(Len(calls))

C9_Witness ==
  /\ Len(calls) = 3
  /\ calls[1].op = "decl_var_mut" /\ calls[1].value.ty = "Int"
  /\ calls[2].op = "assign_var" /\ calls[2].name = calls[1].name
  /\ calls[2].value.ty = "Float"
  /\ calls[3].op = "assign_var" /\ calls[3].name /= calls[1].name
  /\ panicked = "not found"
  /\ get_auto(calls[1].name).ok
  /\ get_auto(calls[1].name).val = calls[2].value

\* the declarations the program parser has collected
RattleDecls ==
  IF stack /= <<>> /\ stack[1].p = "Rattle" THEN stack[1].v.decls
  ELSE IF Succeeded THEN result.val.decls
  ELSE <<>>

GenBlocks(decls) == {i \in 1..Len(decls) : decls[i].value.variant = "RtlGen"}
InGen == \E i \in 1..Len(stack) : stack[i].p = "RtlGen" /\ stack[i].pc = "methods"
FnCalledByGen ==
  /\ Running("RtlFn", "head")
  /\ Len(stack) >= 2
  /\ stack[Len(stack) - 1].p = "RtlGen"

\* a generic block is the last declaration, and the program loop gets control
\* back from it only with the input exhausted
GenIsLast ==
  /\ \A i \in GenBlocks(RattleDecls) : i = Len(RattleDecls)
  /\ (Running("Rattle", "decls") /\ GenBlocks(RattleDecls) /= {}) =>
       (Len(streams) = 1 /\ Cur = End)

\* a step of the generic-block loop: it parses a Function while tokens remain,
\* returns only at the end of the input, and fails on a token other than `f`
GenStep ==
  /\ (Running("RtlGen", "methods") /\ Cur /= End) => FnCalledByGen'
  /\ (InGen /\ ~InGen') => (Rejected' \/ (Len(streams) = 1 /\ Cur = End))
  /\ (FnCalledByGen /\ src[Cur] /= "f") => Rejected'

\* C10: after `gen`, Functions are parsed until the input is exhausted: a
\* successful parse has at most one GenericBlock, as its last declaration, and a
\* token after `gen` that does not start a Function fails the parse.
C10_GenRunsToEnd == [](GenIsLast) /\ [][GenStep]_vars

C10_Witness ==
  /\ Succeeded
  /\ Len(result.val.decls) >= 2
  /\ GenBlocks(result.val.decls) = {Len(result.val.decls)}
  /\ Len(result.val.decls[Len(result.val.decls)].value.node.methods) >= 1

(***************************************************************************)
(* Imports come first                                                      *)
(***************************************************************************)
InDeclPhase == stack /= <<>> /\ stack[1].p = "Rattle" /\ stack[1].pc = "decls"
ParsingImport == \E i \in 1..Len(stack) : stack[i].p = "RtlImport"

\* an import is only ever being parsed in the leading phase, before any
\* declaration has been collected
ImportsLead ==
  ParsingImport =>
    (stack[1].p = "Rattle" /\ stack[1].pc = "imports" /\ stack[1].v.decls = <<>>)

\* the declaration phase is never left for the import phase, the import list
\* it started with is the one of the tree, and the dispatcher rejects `import`
DeclPhaseStep ==
  /\ InDeclPhase =>
       \/ Rejected'
       \/ Succeeded' /\ result'.val.imports = stack[1].v.imports
       \/ InDeclPhase' /\ stack'[1].v.imports = stack[1].v.imports
  /\ (Running("RtlDecl", "head") /\ Peek("import", Cur, End)) => Rejected'

\* C11: imports are parsed only in the leading phase of the program parser:
\* once declaration dispatch has begun no import is parsed again, the imports
\* of the tree are those collected before the first declaration, and an
\* `import` met by the dispatcher (after a declaration or a stray terminator)
\* fails the parse.
C11_ImportsOnlyLeading == [](ImportsLead) /\ [][DeclPhaseStep]_vars

\* `import ..` then a declaration then `import`: rejected at the second import
C11_Witness ==
  /\ Rejected
  /\ src[1] = "import"
  /\ result.err.expected = DeclKeywords
  /\ result.err.at \in 2..Len(src)
  /\ src[result.err.at] = "import"
  /\ \E i \in 2..(result.err.at - 1) : src[i] \in {"struct", "const", "def"}

(***************************************************************************)
(* Progress of the loops                                                   *)
(***************************************************************************)
\* the head of a loop whose body is a call of another parser
CallLoopHead ==
  \/ Running("Rattle", "imports") \/ Running("Rattle", "decls")
  \/ Running("RtlDef", "defs") \/ Running("RtlGen", "methods")

\* the head of a loop whose body is one step
StepLoopHead ==
  \/ Running("RtlImport", "loop") \/ Running("RtlFn", "args")
  \/ Running("RtlStruct", "fields")

\* back at the head of a loop, the cursor is past where its last iteration began
IterationsAdvance == CallLoopHead => Cur > Top.v.at

\* what the loop of a frame has collected so far
Collected(fr) ==
  CASE fr.p = "Rattle" -> Len(fr.v.imports) + Len(fr.v.decls)
    [] fr.p = "RtlDef" /\ fr.pc = "defs" -> Len(fr.v.defs)
    [] fr.p = "RtlGen" /\ fr.pc = "methods" -> Len(fr.v.methods)
    [] fr.p = "RtlFn" /\ fr.pc = "args" -> Len(fr.v.args)
    [] fr.p = "RtlStruct" /\ fr.pc = "fields" -> Len(fr.v.fields)
    [] fr.p = "RtlImport" /\ fr.pc = "loop" -> Len(fr.v.path)
    [] OTHER -> 0

IterationsBounded == \A i \in 1..Len(stack) : Collected(stack[i]) <= Len(src)

\* an iteration made of one step moves the cursor forward or fails, and no
\* step moves the cursor of a stream backwards
LoopStep ==
  /\ (StepLoopHead /\ Cur /= End) => (Rejected' \/ Cur' > Cur)
  /\ Len(streams') = Len(streams) => Cur' >= Cur

\* how many steps the running parser can take without reading a token
Slack ==
  IF Done THEN 0
  ELSE IF stack = <<>> THEN 6
  ELSE CASE Running("RtlImport", "loop") -> 5
         [] Running("Rattle", "imports") \/ Running("RtlGen", "methods") -> 4
         [] Running("Rattle", "decls") \/ Running("RtlDef", "defs") -> 3
         [] Running("RtlDecl", "head") -> 2
         [] OTHER -> 1

\* the tokens not yet read, then the steps that read none
Rank == (Len(src) + 1 - Cur) * 7 + Slack

\* every step of the parser brings the end of the input or of the parse closer
Progress == Rank' < Rank /\ Rank' >= 0

\* the positions of the parsers: each has a step for the input exhausted and a
\* step for a token at the cursor
Positions ==
  { <<"Rattle", "imports">>, <<"Rattle", "decls">>, <<"RtlImport", "head">>,
    <<"RtlImport", "loop">>, <<"RtlDecl", "head">>, <<"RtlFn", "head">>,
    <<"RtlFn", "args">>, <<"RtlConstExpr", "head">>, <<"RtlVarExpr", "head">>,
    <<"RtlStatic", "head">>, <<"RtlStruct", "head">>, <<"RtlStruct", "fields">>,
    <<"RtlDef", "head">>, <<"RtlDef", "defs">>, <<"RtlGen", "head">>,
    <<"RtlGen", "methods">> }

\* the parser is never stuck before it has a tree or an error
NoStall ==
  ~Done => IF stack = <<>> THEN result.status = "none"
           ELSE <<Top.p, Top.pc>> \in Positions /\ Cur <= End

\* C12: parsing a finite token stream ends with a tree or an error: every
\* iteration of every loop (declarations and imports of the program, import
\* elements, arguments, fields, functions of def and gen blocks) moves the
\* cursor forward by at least one token or fails, so no loop runs more
\* iterations than the input has tokens, and every step lowers a rank that is
\* bounded by the length of the input.
C12_Terminates ==
  /\ [](IterationsAdvance /\ IterationsBounded /\ NoStall)
  /\ [][LoopStep /\ Progress]_vars

\* a parse that ended after three iterations of the declaration loop, one of
\* them over a def block whose own loop ran
C12_Witness ==
  /\ Succeeded
  /\ Len(result.val.decls) = 3
  /\ \E i \in 1..3 : /\ result.val.decls[i].value.variant = "RtlDef"
                       /\ result.val.decls[i].value.node.defs /= <<>>

(***************************************************************************)
(* Probes on a fork                                                        *)
(***************************************************************************)
TokenAt(i, e) == IF i < e THEN src[i] ELSE ""
IdentAt(i, e) == i < e /\ IsIdent(src[i])

\* the step ends with the parse running or finished, the cursor at c and the
\* last fork left at fk
Commits(c, fk) == ~Rejected' /\ Cur' = c /\ forked' = fk

\* the step ends with the error of a parse on the input itself, at c
Refuses(c, fk, expected) ==
  /\ Rejected' /\ Cur' = c /\ forked' = fk
  /\ result'.err.expected = expected /\ result'.err.at = c

\* the program loop: the terminator is taken when the fork found one, and a
\* fork that found none is no error
ForkInProgramLoop ==
  (Running("Rattle", "decls") /\ Cur /= End) =>
    IF src[Cur] = ";" THEN Commits(Cur + 1, Cur + 1) ELSE Commits(Cur, Cur)

\* the import loop: `as`, `;` and `::` are looked for on forks; the input
\* moves by the alternative found, or by an identifier when none was
ForkInImportLoop ==
  (Running("RtlImport", "loop") /\ Cur /= End) =>
    CASE src[Cur] = "as" ->
           IF IdentAt(Cur + 1, End) THEN Commits(Cur + 2, Cur + 1)
           ELSE Refuses(Cur + 1, Cur + 1, <<"identifier">>)
      [] src[Cur] \in {";", "::"} -> Commits(Cur + 1, Cur + 1)
      [] OTHER ->
           IF IdentAt(Cur, End) THEN Commits(Cur + 1, Cur)
           ELSE Refuses(Cur, Cur, <<"identifier">>)

\* the function: after the return type the terminator is looked for on a
\* fork; the input moves past it when it is there and not at all otherwise
ForkInFn ==
  (Running("RtlFn", "args") /\ Cur = End) =>
    LET input == streams[Len(streams) - 1]
        ret == input.cur
    IN IF IdentAt(ret, input.end)
       THEN IF TokenAt(ret + 1, input.end) = ";" THEN Commits(ret + 2, ret + 2)
            ELSE Commits(ret + 1, ret + 1)
       ELSE Refuses(ret, forked, <<"identifier">>)

\* C13: a probe on a fork never moves the cursor of the input: in the
\* function parser, the import parser and the program loop a probe that fails
\* changes nothing and is not an error, and the input moves only by the
\* tokens of the alternative then parsed on it.
C13_ForkLeavesInput == [][ForkInProgramLoop /\ ForkInImportLoop /\ ForkInFn]_vars

\* an import element where all three probes failed and an identifier was taken
\* after an earlier probe had found `::`
C13_Witness ==
  /\ Running("RtlImport", "loop")
  /\ Len(Top.v.path) = 2
  /\ forked = Cur - 1
  /\ src[forked - 1] = "::"

(***************************************************************************)
(* Initializers                                                            *)
(***************************************************************************)
HasMut(s) == Len(s) >= 3 /\ s[1] \in {"var", "static"} /\ s[3] = "mut"
EqAt(s) == IF HasMut(s) THEN 5 ELSE 4

\* `const`/`var`/`static` type [`mut`] name `=`, then at least one token that
\* is not the terminator, then a terminator further on
NonEmptyInitializer(s) ==
  /\ Balanced(s)
  /\ Len(s) >= EqAt(s) + 2
  /\ s[1] \in {"const", "var", "static"}
  /\ IsIdent(s[2])
  /\ IsIdent(s[EqAt(s) - 1])
  /\ s[EqAt(s)] = "="
  /\ s[EqAt(s) + 1] /= ";"
  /\ \E j \in (EqAt(s) + 2)..Len(s) : s[j] = ";"

\* C14 as claimed: a constant, variable or static with a non-empty initializer
\* parses successfully (into a tree that lost the initializer).
C14_InitializerSilentlyAccepted == (Done /\ NonEmptyInitializer(src)) => Succeeded

\* C14: a constant, variable or static with a non-empty initializer is
\* rejected: the zero-width expression leaves the initializer's first token to
\* the terminator parse, which fails on it, expecting `;`, with the cursor
\* left on that token.
C14_InitializerRejected ==
  (Done /\ NonEmptyInitializer(src)) =>
    /\ Rejected
    /\ result.err.expected = <<";">>
    /\ result.err.at = EqAt(src) + 1
    /\ ~result.err.eof
    /\ Cur = EqAt(src) + 1

\* `static Int mut X = a b ;`, rejected at `a`
C14_Witness ==
  /\ Rejected
  /\ NonEmptyInitializer(src)
  /\ HasMut(src)
  /\ src[1] = "static"
  /\ src[result.err.at] = "a"

(***************************************************************************)
(* Stray terminators                                                       *)
(***************************************************************************)
\* an iteration of the declaration loop takes one terminator if it is there,
\* collects nothing for it and calls the dispatcher whatever comes next
DeclLoopStep ==
  (Running("Rattle", "decls") /\ Cur /= End) =>
    /\ Cur' = Cur + (IF src[Cur] = ";" THEN 1 ELSE 0)
    /\ Running("RtlDecl", "head")'
    /\ stack'[1].v.decls = stack[1].v.decls

\* the dispatcher at the end of the input or at a second terminator fails
DispatchAtTerminator ==
  (Running("RtlDecl", "head") /\ (Cur = End \/ src[Cur] = ";")) =>
    /\ Rejected'
    /\ result'.err.expected = DeclKeywords
    /\ result'.err.at = Cur

\* declarations that take their own terminator, or need none
Delimited ==
  { <<"const", "Int", "X", "=", ";">>, <<"var", "Int", "mut", "X", "=", ";">>,
    <<"static", "Int", "X", "=", ";">>, <<"f", "G", "(", ")", "R", ";">>,
    <<"struct", "P", "{", "a", "b", ",", "}">>,
    <<"def", "S", "{", "f", "G", "(", ")", "R", ";", "}", "for", "T", ";">> }

\* one stray terminator in front of a declaration is skipped: the declaration
\* parsed after it is the one parsed without it
StrayTerminatorSkipped ==
  \A d \in Delimited :
    /\ (Done /\ src = <<";">> \o d) =>
         (Succeeded /\ Len(result.val.decls) = 1
            /\ result.val.decls[1].value.variant = VariantOf(d[1]))
    /\ (Done /\ src \in {d \o d, d \o <<";">> \o d}) =>
         (Succeeded /\ Len(result.val.decls) = 2
            /\ result.val.decls[1] = result.val.decls[2])

\* the input ends with a struct and a terminator
EndsWithStructAndTerminator(s) ==
  /\ Balanced(s)
  /\ Len(s) >= 5
  /\ s[Len(s)] = ";"
  /\ \E k \in 1..(Len(s) - 4) :
       /\ s[k] = "struct" /\ IsIdent(s[k + 1]) /\ s[k + 2] = "{"
       /\ MatchClose(s, k + 2) = Len(s) - 1

\* three terminators in a row anywhere, or two at the start or at the end
AdjacentStrayTerminators(s) ==
  /\ Len(s) >= 2
  /\ \/ s[1] = ";" /\ s[2] = ";"
     \/ s[Len(s) - 1] = ";" /\ s[Len(s)] = ";"
     \/ \E k \in 1..(Len(s) - 2) : s[k] = ";" /\ s[k + 1] = ";" /\ s[k + 2] = ";"

StrayTerminatorRejected ==
  (Done /\ (EndsWithStructAndTerminator(src) \/ AdjacentStrayTerminators(src))) => Rejected

\* C15: each iteration of the declaration loop skips at most one terminator
\* and then parses a declaration unconditionally: one stray terminator in
\* front of a declaration leaves the declaration list as it is without it,
\* while a terminator left over at the end of the input (after `struct P { }`)
\* or a second stray terminator fails the parse at the dispatcher.
C15_OneTerminatorSkipped ==
  /\ [](StrayTerminatorSkipped /\ StrayTerminatorRejected)
  /\ [][DeclLoopStep /\ DispatchAtTerminator]_vars

\* `.. struct P { a b , } ;`: the terminator was skipped and the dispatcher
\* failed at the end of the input
C15_Witness ==
  /\ Rejected
  /\ EndsWithStructAndTerminator(src)
  /\ result.err.eof
  /\ result.err.expected = DeclKeywords
  /\ forked = Len(src) + 1

====
